---- MODULE Spec2Model ----
(***************************************************************************)
(* A model of crypto_tracker_all_in_one.py: the TTL response cache         *)
(* (get_with_cache), the portfolio valuation (calculate_portfolio_value),  *)
(* the session state of the portfolio and watchlist pages, the market      *)
(* dominance bucketing and the movers ranking of the dashboard.            *)
(*                                                                         *)
(* Python values are records tagged with their type, so that None, lists   *)
(* and dicts can be compared with each other.  A dict is a sequence of     *)
(* entries in insertion order, because the code depends on the iteration   *)
(* order of dicts.  Amounts, prices and percentages are integers: the      *)
(* model does not cover floating-point rounding.                           *)
(***************************************************************************)
EXTENDS Integers, Sequences, FiniteSets, TLC

VARIABLES
    now,            \* the wall clock read by time.time(), in seconds
    CACHE,          \* module global CACHE: cache_key -> payload
    CACHE_EXPIRY,   \* module global CACHE_EXPIRY: cache_key -> expiry time
    call,           \* the last call of get_with_cache and what it did
    lastStore,      \* per cache_key, the last successful network fetch of this run
    portfolio,      \* st.session_state.portfolio: {coin_id: amount}
    watchlist,      \* st.session_state.watchlist: [coin_id, ...]
    added,          \* per coin, the amounts added since it was last absent
    ui,             \* the last script run: the page, the click, the message
    pv,             \* the last call of calculate_portfolio_value; on a page, of the last run
    market_data,    \* the argument of create_market_dominance_chart
    chart,          \* the figure create_market_dominance_chart returned
    dashboard_coins, \* the coins home_dashboard fetched
    top_movers,     \* top_gainers and top_losers of home_dashboard
    pv_earlier,     \* an earlier call of calculate_portfolio_value, any of them
    history,        \* the last call of get_coin_history
    call_earlier    \* the call of get_with_cache before the last one

\* the arguments and results of the chart, the ranking and the history, and
\* the remembered valuation
views == <<market_data, chart, dashboard_coins, top_movers, pv_earlier, history, call_earlier>>

vars == <<now, CACHE, CACHE_EXPIRY, call, lastStore, portfolio, watchlist, added, ui, pv,
          views>>

-----------------------------------------------------------------------------
(* Bounds of the model *)

MaxTime == 120
MaxPrice == 2
MaxAmount == 2
\* the seconds a network request takes
MaxLatency == 2

-----------------------------------------------------------------------------
(* Python values *)

NoneV == [type |-> "NoneType"]
ListV(items) == [type |-> "list", items |-> items]
DictV(entries) == [type |-> "dict", entries |-> entries]

\* bool(v) as used by "if not v"
Truthy(v) ==
    CASE v.type = "NoneType" -> FALSE
      [] v.type = "list" -> v.items # <<>>
      [] v.type = "dict" -> v.entries # <<>>

Range(s) == {s[i] : i \in 1..Len(s)}

-----------------------------------------------------------------------------
(* The clock *)

CACHE_DURATION == 60

\* Time passes between calls.  The clock advances by one second less than
\* the cache duration or by exactly the cache duration, so that calls fall
\* just before, exactly at and after an expiry time.
TickSteps == {CACHE_DURATION - 1, CACHE_DURATION}

Tick(d) ==
    /\ now + d <= MaxTime
    /\ now' = now + d
    /\ UNCHANGED <<CACHE, CACHE_EXPIRY, call, lastStore, portfolio, watchlist, added,
                   ui, pv, views>>

-----------------------------------------------------------------------------
(* get_with_cache *)

BASE_URL == "https://api.coingecko.com/api/v3"

IntStr(n) ==
    CASE n = 50 -> "50"
      [] n = 100 -> "100"
      [] n = 250 -> "250"

\* str(params) of the params the program builds
PyStr(params) ==
    CASE params.type = "NoneType" -> "None"
      [] params.type = "markets" ->
            "{'vs_currency': 'usd', 'order': 'market_cap_desc', 'per_page': "
            \o IntStr(params.per_page)
            \o ", 'page': 1, 'sparkline': False, 'price_change_percentage': '1h,24h,7d'}"
      [] params.type = "history" ->
            "{'vs_currency': 'usd', 'days': '" \o params.days
            \o "', 'interval': '" \o params.interval \o "'}"

\* cache_key = f"{url}_{str(params)}"
cache_key(url, params) == url \o "_" \o PyStr(params)

\* dict.get(key, default) and dict[key] = value on the cache dicts
DictGet(d, key, default) == IF key \in DOMAIN d THEN d[key] ELSE default
DictPut(d, key, value) ==
    [k \in DOMAIN d \cup {key} |-> IF k = key THEN value ELSE d[k]]

CacheHit_ExpiryInclusive(C, E, key, current_time) ==
    key \in DOMAIN C /\ DictGet(E, key, 0) >= current_time

\* line 51: a cached response that has not expired
CacheHit(C, E, key, current_time) ==
    key \in DOMAIN C /\ DictGet(E, key, 0) > current_time

\* The responses of requests.get(...), raise_for_status() and json():
\* a body, or one of the exceptions.  All three exceptions are subclasses of
\* requests.exceptions.RequestException (json() raises
\* requests.exceptions.JSONDecodeError for a malformed body).
FailureKinds == {"ConnectionError", "HTTPError", "JSONDecodeError"}
IsRequestException(kind) == kind \in FailureKinds

Ok(body) == [kind |-> "ok", body |-> body]
Failed(kind) == [kind |-> kind]
Responses(bodies) == {Ok(b) : b \in bodies} \cup {Failed(k) : k \in FailureKinds}

RequestAndStore_StoresBeforeParsing(C, E, key, current_time, cache_duration, response) ==
    IF response.kind = "ok"
    THEN [ret |-> response.body,
          CACHE |-> DictPut(C, key, response.body),
          CACHE_EXPIRY |-> DictPut(E, key, current_time + cache_duration),
          requests |-> 1, raised |-> FALSE]
    ELSE [ret |-> NoneV,
          CACHE |-> DictPut(C, key, NoneV),
          CACHE_EXPIRY |-> DictPut(E, key, current_time + cache_duration),
          requests |-> 1, raised |-> FALSE]

RequestAndStore_RemembersFailure(C, E, key, current_time, cache_duration, response) ==
    IF response.kind = "ok"
    THEN [ret |-> response.body,
          CACHE |-> DictPut(C, key, response.body),
          CACHE_EXPIRY |-> DictPut(E, key, current_time + cache_duration),
          requests |-> 1, raised |-> FALSE]
    ELSE IF IsRequestException(response.kind)
    THEN [ret |-> NoneV,
          CACHE |-> DictPut(C, key, NoneV),
          CACHE_EXPIRY |-> DictPut(E, key, current_time + cache_duration),
          requests |-> 1, raised |-> FALSE]
    ELSE [ret |-> NoneV, CACHE |-> C, CACHE_EXPIRY |-> E,
          requests |-> 1, raised |-> TRUE]

\* lines 55-68: the request, and the store of its result
RequestAndStore(C, E, key, current_time, cache_duration, response) ==
    IF response.kind = "ok"
    THEN [ret |-> response.body,
          CACHE |-> DictPut(C, key, response.body),
          CACHE_EXPIRY |-> DictPut(E, key, current_time + cache_duration),
          requests |-> 1, raised |-> FALSE]
    ELSE IF IsRequestException(response.kind)
    THEN [ret |-> NoneV, CACHE |-> C, CACHE_EXPIRY |-> E,
          requests |-> 1, raised |-> FALSE]
    ELSE [ret |-> NoneV, CACHE |-> C, CACHE_EXPIRY |-> E,
          requests |-> 1, raised |-> TRUE]

get_with_cache_HitExtendsExpiry(url, params, cache_duration, current_time, response, C, E) ==
    LET key == cache_key(url, params)
    IN IF CacheHit(C, E, key, current_time)
       THEN [ret |-> C[key], CACHE |-> C,
             CACHE_EXPIRY |-> DictPut(E, key, current_time + cache_duration),
             requests |-> 0, raised |-> FALSE]
       ELSE RequestAndStore(C, E, key, current_time, cache_duration, response)

\* get_with_cache called at current_time, when the network would answer
\* with response; C and E are CACHE and CACHE_EXPIRY before the call.
get_with_cache(url, params, cache_duration, current_time, response, C, E) ==
    LET key == cache_key(url, params)
    IN IF CacheHit(C, E, key, current_time)
       THEN [ret |-> C[key], CACHE |-> C, CACHE_EXPIRY |-> E,
             requests |-> 0, raised |-> FALSE]
       ELSE RequestAndStore(C, E, key, current_time, cache_duration, response)

\* What a call is remembered by: its key, its time, the answer of the
\* network (when it asked), what it returned and the number of requests.
CallRecord(url, params, current_time, response, r) ==
    [key |-> cache_key(url, params),
     time |-> current_time,
     response |-> IF r.requests = 0 THEN "not asked" ELSE response.kind,
     ret |-> r.ret,
     requests |-> r.requests,
     raised |-> r.raised]

\* The network is asked only on a cache miss: the answers to choose from.
NetResponses(url, params, current_time, C, E, bodies) ==
    IF CacheHit(C, E, cache_key(url, params), current_time)
    THEN {Failed("ConnectionError")}
    ELSE Responses(bodies)

\* the last successful network fetch per key, kept apart from the caches
StoresAfter(url, params, cache_duration, current_time, response, stores, r) ==
    IF r.requests = 1 /\ response.kind = "ok"
    THEN DictPut(stores, cache_key(url, params),
                 [type |-> "store", time |-> current_time,
                  duration |-> cache_duration, payload |-> response.body])
    ELSE stores

NoCall == [type |-> "NoneType"]
EmptyDict == [k \in {} |-> NoneV]

-----------------------------------------------------------------------------
(* The requests of the program *)

markets_url == BASE_URL \o "/coins/markets"
markets_params(limit) == [type |-> "markets", per_page |-> limit]
global_url == BASE_URL \o "/global"

\* get_top_coins(limit)
get_top_coins(limit, current_time, response, C, E) ==
    get_with_cache(markets_url, markets_params(limit), CACHE_DURATION,
                   current_time, response, C, E)

-----------------------------------------------------------------------------
(* Calls in sequence.  A world is the part of the state the fetchers read
   and write: W.CACHE, W.CACHE_EXPIRY, and the records W.call, W.lastStore
   of the calls. *)

World == [CACHE |-> CACHE, CACHE_EXPIRY |-> CACHE_EXPIRY,
          call |-> call, lastStore |-> lastStore]

\* the world after the call of get_with_cache that returned r
WorldAfter(url, params, cache_duration, current_time, response, W, r) ==
    [CACHE |-> r.CACHE,
     CACHE_EXPIRY |-> r.CACHE_EXPIRY,
     call |-> CallRecord(url, params, current_time, response, r),
     lastStore |-> StoresAfter(url, params, cache_duration, current_time, response,
                               W.lastStore, r)]

-----------------------------------------------------------------------------
(* Market data *)

\* the coins of the model, in the order /coins/markets ranks them
CoinIds == <<"bitcoin", "ethereum", "tether">>
CoinIdSet == Range(CoinIds)
Prices == 1..MaxPrice

SymbolOf(id) ==
    CASE id = "bitcoin" -> "btc" [] id = "ethereum" -> "eth" [] id = "tether" -> "usdt"

NameOf(id) ==
    CASE id = "bitcoin" -> "Bitcoin" [] id = "ethereum" -> "Ethereum"
      [] id = "tether" -> "Tether"

\* str.upper() on the symbols of the model
upper(sym) ==
    CASE sym = "btc" -> "BTC" [] sym = "eth" -> "ETH" [] sym = "usdt" -> "USDT"
      [] sym = "bnb" -> "BNB" [] sym = "sol" -> "SOL" [] sym = "xrp" -> "XRP"
      [] sym = "usdc" -> "USDC" [] sym = "ada" -> "ADA" [] sym = "doge" -> "DOGE"
      [] sym = "trx" -> "TRX" [] sym = "ton" -> "TON" [] sym = "dot" -> "DOT"
      [] OTHER -> sym

\* one record of the /coins/markets response
Coin(id, name, price) ==
    [id |-> id, symbol |-> SymbolOf(id), name |-> name, current_price |-> price]

\* The responses of /coins/markets: every coin is listed or not, with any
\* price, in rank order.
RECURSIVE MarketsFrom(_)
MarketsFrom(k) ==
    IF k > Len(CoinIds) THEN {<<>>}
    ELSE LET rest == MarketsFrom(k + 1)
         IN rest \cup {<<Coin(CoinIds[k], NameOf(CoinIds[k]), p)>> \o r :
                          p \in Prices, r \in rest}

Snapshots == {ListV(s) : s \in MarketsFrom(1)}

-----------------------------------------------------------------------------
(* Python dicts in insertion order, as sequences of <<key, value>> *)

Keys(d) == {d.entries[i][1] : i \in 1..Len(d.entries)}
IndexOf(d, key) == CHOOSE i \in 1..Len(d.entries) : d.entries[i][1] = key
\* d.get(key, default)
Get(d, key, default) == IF key \in Keys(d) THEN d.entries[IndexOf(d, key)][2] ELSE default
\* d[key] = value: a new key goes last, a present key keeps its place
Put(d, key, value) ==
    IF key \in Keys(d)
    THEN DictV([d.entries EXCEPT ![IndexOf(d, key)] = <<key, value>>])
    ELSE DictV(Append(d.entries, <<key, value>>))
\* del d[key]
Del(d, key) ==
    LET i == IndexOf(d, key)
    IN DictV(SubSeq(d.entries, 1, i - 1) \o SubSeq(d.entries, i + 1, Len(d.entries)))

-----------------------------------------------------------------------------
(* list.sort / sorted: a stable sort of <<key, item>> pairs *)

RECURSIVE InsertAscending(_, _)
InsertAscending(sorted, x) ==
    IF sorted = <<>> THEN <<x>>
    ELSE IF x[1] < Head(sorted)[1] THEN <<x>> \o sorted
    ELSE <<Head(sorted)>> \o InsertAscending(Tail(sorted), x)

RECURSIVE InsertDescending(_, _)
InsertDescending(sorted, x) ==
    IF sorted = <<>> THEN <<x>>
    ELSE IF x[1] > Head(sorted)[1] THEN <<x>> \o sorted
    ELSE <<Head(sorted)>> \o InsertDescending(Tail(sorted), x)

\* sorted(pairs, key=first, reverse=reverse): items with equal keys keep
\* their order, also with reverse=True
RECURSIVE sorted(_, _)
sorted(pairs, reverse) ==
    IF pairs = <<>> THEN <<>>
    ELSE LET front == sorted(SubSeq(pairs, 1, Len(pairs) - 1), reverse)
             last == pairs[Len(pairs)]
         IN IF reverse THEN InsertDescending(front, last)
            ELSE InsertAscending(front, last)

Reverse(s) == [i \in 1..Len(s) |-> s[Len(s) + 1 - i]]
Items(pairs) == [i \in 1..Len(pairs) |-> pairs[i][2]]

RECURSIVE SumOf(_)
SumOf(s) == IF s = <<>> THEN 0 ELSE s[1] + SumOf(Tail(s))

-----------------------------------------------------------------------------
(* calculate_portfolio_value *)

\* A record of /coins/markets.  Its fields are the keys that have a value;
\* the keys that the JSON has with null are listed in the field nulls.
Nulls(coin) == IF "nulls" \in DOMAIN coin THEN coin.nulls ELSE {}

\* coin.get(key, default) when it is not None: the default only for a key
\* the record does not have
GetValue(coin, key, default) == IF key \in DOMAIN coin THEN coin[key] ELSE default

\* lines 193-201: the lookup by coin id; a later record of an id replaces
\* an earlier one.  A record whose id is null is filed under None, which
\* no holding has.
coin_prices(all_coins) ==
    [id \in {all_coins[i].id : i \in {k \in 1..Len(all_coins) : "id" \in DOMAIN all_coins[k]}} |->
        LET last == CHOOSE i \in 1..Len(all_coins) :
                        /\ "id" \in DOMAIN all_coins[i]
                        /\ all_coins[i].id = id
                        /\ \A j \in (i + 1)..Len(all_coins) :
                              "id" \in DOMAIN all_coins[j] => all_coins[j].id # id
            coin == all_coins[last]
        IN [current_price |-> GetValue(coin, "current_price", 0),
            price_change_24h_percentage |-> GetValue(coin, "price_change_percentage_24h", 0),
            symbol |-> GetValue(coin, "symbol", ""),
            name |-> GetValue(coin, "name", ""),
            image |-> GetValue(coin, "image", ""),
            nulls |-> Nulls(coin) \ {"id"}]]

\* line 195: coin['id'] of a record without the key raises KeyError
coin_prices_raises(all_coins) ==
    \E i \in 1..Len(all_coins) : "id" \notin DOMAIN all_coins[i] \cup Nulls(all_coins[i])

\* lines 207-222: one item per holding that has a price, in the order of
\* the holdings; nulls lists the keys of the item that are None
RECURSIVE portfolio_items(_, _)
portfolio_items(entries, prices) ==
    IF entries = <<>> THEN <<>>
    ELSE LET coin_id == entries[1][1]
             amount == entries[1][2]
             rest == portfolio_items(Tail(entries), prices)
         IN IF coin_id \in DOMAIN prices
            THEN <<[id |-> coin_id,
                    symbol |-> upper(prices[coin_id].symbol),
                    name |-> prices[coin_id].name,
                    amount |-> amount,
                    price |-> prices[coin_id].current_price,
                    value |-> amount * prices[coin_id].current_price,
                    price_change_24h |-> prices[coin_id].price_change_24h_percentage,
                    image |-> prices[coin_id].image,
                    nulls |-> prices[coin_id].nulls]>> \o rest
            ELSE rest

\* line 210: amount * None raises TypeError; line 215: None.upper() raises
\* AttributeError
portfolio_items_raises(entries, prices) ==
    \E i \in 1..Len(entries) :
       /\ entries[i][1] \in DOMAIN prices
       /\ \/ "current_price" \in prices[entries[i][1]].nulls
          \/ "symbol" \in prices[entries[i][1]].nulls

sort_by_value_ReversedAscending(items) ==
    Reverse(Items(sorted([i \in 1..Len(items) |-> <<items[i].value, items[i]>>], FALSE)))

\* line 225: portfolio_items.sort(key=lambda x: x['value'], reverse=True)
sort_by_value(items) ==
    Items(sorted([i \in 1..Len(items) |-> <<items[i].value, items[i]>>], TRUE))

\* lines 203-230: the valuation of the holdings against the fetched coins
valuation(holdings, all_coins) ==
    LET items == portfolio_items(holdings.entries, coin_prices(all_coins))
    IN [total_value |-> SumOf([i \in 1..Len(items) |-> items[i].value]),
        holdings |-> sort_by_value(items)]

\* lines 192-222 raise for the fetched coins
valuation_raises(holdings, all_coins) ==
    \/ coin_prices_raises(all_coins)
    \/ portfolio_items_raises(holdings.entries, coin_prices(all_coins))

\* line 189: "if not all_coins"
snapshot_unusable(all_coins) == ~Truthy(all_coins)

calculate_portfolio_value_AddsCallTime(holdings, current_time, response, C, E) ==
    IF ~Truthy(holdings)
    THEN [result |-> [total_value |-> 0, holdings |-> <<>>], raised |-> FALSE,
          fetch |-> NoneV, CACHE |-> C, CACHE_EXPIRY |-> E]
    ELSE LET f == get_top_coins(250, current_time, response, C, E)
         IN [result |->
                IF snapshot_unusable(f.ret)
                THEN [total_value |-> 0, holdings |-> <<>>,
                      error |-> "Failed to fetch coin data"]
                ELSE [valuation(holdings, f.ret.items) EXCEPT
                         !.total_value = @ + current_time],
             raised |-> FALSE,
             fetch |-> f,
             CACHE |-> f.CACHE, CACHE_EXPIRY |-> f.CACHE_EXPIRY]

\* calculate_portfolio_value(holdings) called at current_time when the
\* network would answer with response.  fetch is the call of get_with_cache
\* it made, or None; a call that raised has no result.
calculate_portfolio_value(holdings, current_time, response, C, E) ==
    IF ~Truthy(holdings)
    THEN [result |-> [total_value |-> 0, holdings |-> <<>>], raised |-> FALSE,
          fetch |-> NoneV, CACHE |-> C, CACHE_EXPIRY |-> E]
    ELSE LET f == get_top_coins(250, current_time, response, C, E)
             raises == ~snapshot_unusable(f.ret) /\ valuation_raises(holdings, f.ret.items)
         IN [result |->
                IF snapshot_unusable(f.ret)
                THEN [total_value |-> 0, holdings |-> <<>>,
                      error |-> "Failed to fetch coin data"]
                ELSE IF raises THEN NoneV
                ELSE valuation(holdings, f.ret.items),
             raised |-> raises,
             fetch |-> f,
             CACHE |-> f.CACHE, CACHE_EXPIRY |-> f.CACHE_EXPIRY]

\* the world after calculate_portfolio_value(holdings), and the record of
\* the call
valued(holdings, current_time, response, W) ==
    LET v == calculate_portfolio_value(holdings, current_time, response,
                                       W.CACHE, W.CACHE_EXPIRY)
    IN [world |-> IF v.fetch = NoneV THEN W
                  ELSE WorldAfter(markets_url, markets_params(250), CACHE_DURATION,
                                  current_time, response, W, v.fetch),
        pv |-> [holdings |-> holdings,
                fetch |-> IF v.fetch = NoneV THEN NoneV
                          ELSE CallRecord(markets_url, markets_params(250),
                                          current_time, response, v.fetch),
                result |-> v.result,
                raised |-> v.raised]]

-----------------------------------------------------------------------------
(* The initial state: the module globals and an empty session *)

Init ==
    /\ now = 0
    /\ CACHE = EmptyDict
    /\ CACHE_EXPIRY = EmptyDict
    /\ call = NoCall
    /\ lastStore = EmptyDict
    /\ portfolio = DictV(<<>>)
    /\ watchlist = <<>>
    /\ added = [c \in CoinIdSet |-> 0]
    /\ ui = NoCall
    /\ pv = NoCall
    /\ market_data = NoneV
    /\ chart = NoCall
    /\ dashboard_coins = ListV(<<>>)
    /\ top_movers = NoCall
    /\ pv_earlier = NoCall
    /\ history = NoCall
    /\ call_earlier = NoCall

-----------------------------------------------------------------------------
(* The cache on its own: calls of the fetchers at any time, with any answer
   of the network *)

CacheRequests ==
    {[url |-> markets_url, params |-> markets_params(50)],
     [url |-> markets_url, params |-> markets_params(250)],
     [url |-> global_url, params |-> NoneV]}

\* the bodies the network answers with
CacheBodies ==
    {ListV(<<>>), ListV(<<Coin("bitcoin", "Bitcoin", 1)>>)}

Fetch(req, response) ==
    \E r \in {get_with_cache(req.url, req.params, CACHE_DURATION, now, response,
                             CACHE, CACHE_EXPIRY)} :
       \E W \in {WorldAfter(req.url, req.params, CACHE_DURATION, now, response,
                            World, r)} :
          /\ CACHE' = W.CACHE
          /\ CACHE_EXPIRY' = W.CACHE_EXPIRY
          /\ call' = W.call
          /\ lastStore' = W.lastStore
          /\ UNCHANGED <<now, portfolio, watchlist, added, ui, pv, views>>

NextCache ==
    \/ \E d \in TickSteps : Tick(d)
    \/ \E req \in CacheRequests :
         \E response \in NetResponses(req.url, req.params, now, CACHE, CACHE_EXPIRY,
                                      CacheBodies) :
            Fetch(req, response)

SpecCache == Init /\ [][NextCache]_vars

-----------------------------------------------------------------------------
(* Calls of get_with_cache one after the other, the earlier one remembered *)

RetryRequests ==
    {[url |-> markets_url, params |-> markets_params(50)],
     [url |-> global_url, params |-> NoneV]}

FetchAgain(req, response) ==
    \E r \in {get_with_cache(req.url, req.params, CACHE_DURATION, now, response,
                             CACHE, CACHE_EXPIRY)} :
       \E W \in {WorldAfter(req.url, req.params, CACHE_DURATION, now, response,
                            World, r)} :
          /\ CACHE' = W.CACHE
          /\ CACHE_EXPIRY' = W.CACHE_EXPIRY
          /\ call' = W.call
          /\ call_earlier' = call
          /\ lastStore' = W.lastStore
          /\ UNCHANGED <<now, portfolio, watchlist, added, ui, pv, market_data, chart,
                         dashboard_coins, top_movers, pv_earlier, history>>

NextRetry ==
    \/ \E d \in TickSteps : Tick(d)
    \/ \E req \in RetryRequests :
         \E response \in NetResponses(req.url, req.params, now, CACHE, CACHE_EXPIRY,
                                      CacheBodies) :
            FetchAgain(req, response)

SpecRetry == Init /\ [][NextRetry]_vars

-----------------------------------------------------------------------------
(* The cache when requests take time: requests.get (line 57) is called
   without a timeout, and the clock was read before it (line 50) *)

\* get_with_cache reads the clock, and returns latency seconds later when it
\* asked the network
FetchSlowly(req, response, latency) ==
    \E r \in {get_with_cache(req.url, req.params, CACHE_DURATION, now, response,
                             CACHE, CACHE_EXPIRY)} :
       \E W \in {WorldAfter(req.url, req.params, CACHE_DURATION, now, response,
                            World, r)} :
          /\ now + latency <= MaxTime
          /\ now' = IF r.requests = 1 THEN now + latency ELSE now
          /\ CACHE' = W.CACHE
          /\ CACHE_EXPIRY' = W.CACHE_EXPIRY
          /\ call' = W.call
          /\ lastStore' = W.lastStore
          /\ UNCHANGED <<portfolio, watchlist, added, ui, pv, views>>

NextLatency ==
    \/ \E d \in TickSteps : Tick(d)
    \/ \E req \in {[url |-> global_url, params |-> NoneV]}, latency \in 0..MaxLatency :
         \E response \in NetResponses(req.url, req.params, now, CACHE, CACHE_EXPIRY,
                                      CacheBodies) :
            FetchSlowly(req, response, latency)

SpecLatency == Init /\ [][NextLatency]_vars

-----------------------------------------------------------------------------
(* The valuation of any holdings against any answer of the network *)

Amounts == 1..MaxAmount

\* every dict {coin_id: amount}, in every insertion order
RECURSIVE HoldingsOver(_)
HoldingsOver(ids) ==
    {<<>>} \cup UNION {{<<<<id, a>>>> \o h : a \in Amounts, h \in HoldingsOver(ids \ {id})} :
                          id \in ids}

Holdings == {DictV(h) : h \in HoldingsOver(CoinIdSet)}

InitValuation ==
    /\ now = 0
    /\ CACHE = EmptyDict
    /\ CACHE_EXPIRY = EmptyDict
    /\ call = NoCall
    /\ lastStore = EmptyDict
    /\ portfolio \in Holdings
    /\ watchlist = <<>>
    /\ added = [c \in CoinIdSet |-> Get(portfolio, c, 0)]
    /\ ui = NoCall
    /\ pv = NoCall
    /\ market_data = NoneV
    /\ chart = NoCall
    /\ dashboard_coins = ListV(<<>>)
    /\ top_movers = NoCall
    /\ pv_earlier = NoCall
    /\ history = NoCall
    /\ call_earlier = NoCall

Valuate(response) ==
    \E v \in {valued(portfolio, now, response, World)} :
       /\ CACHE' = v.world.CACHE
       /\ CACHE_EXPIRY' = v.world.CACHE_EXPIRY
       /\ call' = v.world.call
       /\ lastStore' = v.world.lastStore
       /\ pv' = v.pv
       /\ UNCHANGED <<now, portfolio, watchlist, added, ui, views>>

NextValuation ==
    \E response \in NetResponses(markets_url, markets_params(250), now, CACHE,
                                 CACHE_EXPIRY, Snapshots) :
        Valuate(response)

SpecValuation == InitValuation /\ [][NextValuation]_vars

-----------------------------------------------------------------------------
(* Repeated valuations of the same holdings: in one run of the script or in
   several, with the clock advancing and other fetches between them *)

\* lines 27-28, executed at the start of every run of the script: Streamlit
\* runs the script from the top on every interaction
ScriptStart(W) ==
    [W EXCEPT !.CACHE = EmptyDict, !.CACHE_EXPIRY = EmptyDict, !.lastStore = EmptyDict]

ScriptRuns ==
    /\ CACHE' = ScriptStart(World).CACHE
    /\ CACHE_EXPIRY' = ScriptStart(World).CACHE_EXPIRY
    /\ lastStore' = ScriptStart(World).lastStore
    /\ UNCHANGED <<now, call, portfolio, watchlist, added, ui, pv, views>>

RevaluedHoldings ==
    {DictV(<<>>),
     DictV(<<<<"bitcoin", 1>>>>),
     DictV(<<<<"ethereum", MaxAmount>>, <<"bitcoin", 1>>>>)}

RevaluationSnapshots ==
    {ListV(<<>>),
     ListV(<<Coin("bitcoin", "Bitcoin", 1), Coin("ethereum", "Ethereum", 1)>>),
     ListV(<<Coin("bitcoin", "Bitcoin", MaxPrice), Coin("ethereum", "Ethereum", 1)>>)}

\* the answers to a valuation's fetch: asked only on a cache miss
RevaluationResponses ==
    IF CacheHit(CACHE, CACHE_EXPIRY, cache_key(markets_url, markets_params(250)), now)
    THEN {Failed("ConnectionError")}
    ELSE {Ok(b) : b \in RevaluationSnapshots} \cup {Failed("ConnectionError")}

InitRevaluation ==
    /\ now = 0
    /\ CACHE = EmptyDict
    /\ CACHE_EXPIRY = EmptyDict
    /\ call = NoCall
    /\ lastStore = EmptyDict
    /\ portfolio \in RevaluedHoldings
    /\ watchlist = <<>>
    /\ added = [c \in CoinIdSet |-> Get(portfolio, c, 0)]
    /\ ui = NoCall
    /\ pv = NoCall
    /\ market_data = NoneV
    /\ chart = NoCall
    /\ dashboard_coins = ListV(<<>>)
    /\ top_movers = NoCall
    /\ pv_earlier = NoCall
    /\ history = NoCall
    /\ call_earlier = NoCall

\* calculate_portfolio_value(portfolio); the call before it is remembered
\* or the remembered one is kept, so that pv_earlier is any earlier call
Revaluate(response, remember) ==
    \E v \in {valued(portfolio, now, response, World)} :
       /\ CACHE' = v.world.CACHE
       /\ CACHE_EXPIRY' = v.world.CACHE_EXPIRY
       /\ call' = v.world.call
       /\ lastStore' = v.world.lastStore
       /\ pv' = v.pv
       /\ pv_earlier' = IF remember THEN pv ELSE pv_earlier
       /\ UNCHANGED <<now, portfolio, watchlist, added, ui, market_data, chart,
                      dashboard_coins, top_movers, history, call_earlier>>

NextRevaluation ==
    \/ \E d \in TickSteps : Tick(d)
    \/ ScriptRuns
    \/ \E response \in RevaluationResponses, remember \in BOOLEAN :
          Revaluate(response, remember)

SpecRevaluation == InitRevaluation /\ [][NextRevaluation]_vars

-----------------------------------------------------------------------------
(* The valuation against records of /coins/markets that lack a key or have
   null for it *)

\* the keys of a record that calculate_portfolio_value reads (lines 193-201)
MarketKeys ==
    {"id", "symbol", "name", "current_price", "price_change_percentage_24h", "image"}

FullCoin(id) ==
    [id |-> id, symbol |-> SymbolOf(id), name |-> NameOf(id),
     current_price |-> MaxPrice, price_change_percentage_24h |-> 1,
     image |-> "https://img/" \o id]

\* the record without the key, and the record with null for the key
WithoutKey(coin, key) == [k \in DOMAIN coin \ {key} |-> coin[k]]
WithNull(coin, key) ==
    [k \in (DOMAIN coin \ {key}) \cup {"nulls"} |->
        IF k = "nulls" THEN {key} ELSE coin[k]]

PartialCoins(id) ==
    {FullCoin(id)}
    \cup {WithoutKey(FullCoin(id), key) : key \in MarketKeys}
    \cup {WithNull(FullCoin(id), key) : key \in MarketKeys}

PartialSnapshots ==
    {ListV(<<b, e>>) : b \in PartialCoins("bitcoin"), e \in PartialCoins("ethereum")}

PartialHoldings ==
    {DictV(<<<<"bitcoin", 1>>>>),
     DictV(<<<<"bitcoin", MaxAmount>>, <<"ethereum", 1>>>>),
     DictV(<<<<"tether", 1>>>>)}

InitPartial ==
    /\ now = 0
    /\ CACHE = EmptyDict
    /\ CACHE_EXPIRY = EmptyDict
    /\ call = NoCall
    /\ lastStore = EmptyDict
    /\ portfolio \in PartialHoldings
    /\ watchlist = <<>>
    /\ added = [c \in CoinIdSet |-> Get(portfolio, c, 0)]
    /\ ui = NoCall
    /\ pv = NoCall
    /\ market_data = NoneV
    /\ chart = NoCall
    /\ dashboard_coins = ListV(<<>>)
    /\ top_movers = NoCall
    /\ pv_earlier = NoCall
    /\ history = NoCall
    /\ call_earlier = NoCall

NextPartial ==
    \E response \in NetResponses(markets_url, markets_params(250), now, CACHE,
                                 CACHE_EXPIRY, PartialSnapshots) :
        Valuate(response)

SpecPartial == InitPartial /\ [][NextPartial]_vars

-----------------------------------------------------------------------------
(* The pages.  Streamlit runs the script from the top on every interaction,
   lines 27-28 included: every run starts with an empty CACHE and asks the
   network for what it needs.  A clicked button returns True in that run.
   A script run reads the clock once, so after the first successful fetch of
   a run the later fetches of the same request in that run are cache hits.
   The run started by st.rerun() is part of the step of the click, and is a
   run of its own with its own answer of the network. *)

\* the world and the coins after get_top_coins(limit)
top_coins(limit, current_time, response, W) ==
    LET r == get_top_coins(limit, current_time, response, W.CACHE, W.CACHE_EXPIRY)
    IN [ret |-> r.ret,
        world |-> WorldAfter(markets_url, markets_params(limit), CACHE_DURATION,
                             current_time, response, W, r)]

\* the options of the coin selectbox: the ids of the fetched coins
coin_options(coins) == {coins[i].id : i \in 1..Len(coins)}

\* the markets the pages see: all coins, a market without tether, and a
\* market in which two coins have the same name
PageSnapshots ==
    {ListV(<<>>),
     ListV(<<Coin("bitcoin", "Bitcoin", MaxPrice), Coin("ethereum", "Ethereum", 1),
             Coin("tether", "Tether", 1)>>),
     ListV(<<Coin("bitcoin", "Bitcoin", 1), Coin("ethereum", "Ethereum", MaxPrice)>>),
     ListV(<<Coin("bitcoin", "Bitcoin", 1), Coin("ethereum", "Wrapped", 1),
             Coin("tether", "Wrapped", 1)>>)}

\* the answers of the network to the first fetch of a run
PageResponses ==
    {Ok(body) : body \in PageSnapshots} \cup {Failed("ConnectionError")}

\* line 51 for the coins of the page, before lines 27-28 of the next run: an
\* entry stored by an earlier run that has not expired
EntryOfEarlierRun ==
    CacheHit(CACHE, CACHE_EXPIRY, cache_key(markets_url, markets_params(250)), now)

-----------------------------------------------------------------------------
(* portfolio_page *)

add_to_portfolio_Replaces(p, selected_coin_id, amount) ==
    IF amount > 0 THEN Put(p, selected_coin_id, amount) ELSE p

add_to_portfolio_AcceptsZero(p, selected_coin_id, amount) ==
    IF amount >= 0
    THEN Put(p, selected_coin_id, Get(p, selected_coin_id, 0) + amount)
    ELSE p

\* lines 731-737: the portfolio after a click on "Add to Portfolio"
add_to_portfolio(p, selected_coin_id, amount) ==
    IF amount > 0
    THEN Put(p, selected_coin_id, Get(p, selected_coin_id, 0) + amount)
    ELSE p

\* lines 732-737: the message of the click
add_message(amount) == IF amount > 0 THEN "success" ELSE "warning"

\* line 774: the coin a row's Remove button acts on: the first holding with
\* the name the row shows
portfolio_remove_target(holdings, row) ==
    holdings[CHOOSE k \in 1..Len(holdings) :
                /\ holdings[k].name = holdings[row].name
                /\ \A m \in 1..(k - 1) : holdings[m].name # holdings[row].name].id

\* lines 792-794
remove_from_portfolio(p, coin_id) == IF coin_id \in Keys(p) THEN Del(p, coin_id) ELSE p

\* the amounts added to each coin since it was last absent from the portfolio
AddedAfter(kind, selected_coin_id, amount, p) ==
    [c \in CoinIdSet |->
        IF c \notin Keys(p) THEN 0
        ELSE IF kind = "add" /\ c = selected_coin_id /\ amount > 0 THEN added[c] + amount
        ELSE added[c]]

\* The end of a run of the page: the session state, the world and the
\* valuation displayed last (lines 739-796 of the last run).  shown is the
\* coin of the row whose Remove button was clicked, requests the network
\* requests of the first fetch of the step, entry whether an earlier run had
\* left an entry for it that had not expired.
PortfolioRunEnds(kind, selected_coin_id, amount, message, shown, requests, p, v) ==
    /\ portfolio' = p
    /\ added' = AddedAfter(kind, selected_coin_id, amount, p)
    /\ ui' = [page |-> "portfolio", click |-> kind, amount |-> amount,
              message |-> message, shown |-> shown, requests |-> requests,
              entry |-> EntryOfEarlierRun]
    /\ pv' = v.pv
    /\ CACHE' = v.world.CACHE
    /\ CACHE_EXPIRY' = v.world.CACHE_EXPIRY
    /\ call' = v.world.call
    /\ lastStore' = v.world.lastStore
    /\ UNCHANGED <<now, watchlist, views>>

\* lines 707-711: the coins could not be fetched; the run ends before any
\* button is reached and without a valuation
PortfolioPageFails(response) ==
    \E f \in {top_coins(250, now, response, ScriptStart(World))} :
       /\ ~Truthy(f.ret)
       /\ PortfolioRunEnds("none", "", 0, "error", "", f.world.call.requests,
                           portfolio, [pv |-> NoCall, world |-> f.world])

\* a run without a click
PortfolioView(response) ==
    \E f \in {top_coins(250, now, response, ScriptStart(World))} :
       /\ Truthy(f.ret)
       /\ \E v \in {valued(portfolio, now, response, f.world)} :
             PortfolioRunEnds("none", "", 0,
                              IF v.pv.result.holdings = <<>> THEN "info" ELSE "none",
                              "", f.world.call.requests, portfolio, v)

\* the answers of the network to the run started by st.rerun(), which
\* follows the run of the click at once: the same answer, or a failure
RerunResponses(response) == {response, Failed("ConnectionError")}

\* the run started by st.rerun() after a click changed the portfolio to p:
\* lines 707-711, and the valuation of p when the coins were fetched
PortfolioRerun(kind, selected_coin_id, amount, message, shown, requests, p, W, responses) ==
    \E response \in responses :
       \E f \in {top_coins(250, now, response, ScriptStart(W))} :
          IF Truthy(f.ret)
          THEN \E v \in {valued(p, now, response, f.world)} :
                  PortfolioRunEnds(kind, selected_coin_id, amount, message, shown,
                                   requests, p, v)
          ELSE PortfolioRunEnds(kind, selected_coin_id, amount, "error", shown,
                                requests, p, [pv |-> NoCall, world |-> f.world])

\* a click on "Add to Portfolio" (lines 721-737); amount > 0 ends in
\* st.rerun()
MaxHolding == 2

AddToPortfolio(selected_coin_id, amount, response) ==
    \E f \in {top_coins(250, now, response, ScriptStart(World))} :
       /\ Truthy(f.ret)
       /\ selected_coin_id \in coin_options(f.ret.items)
       /\ Get(portfolio, selected_coin_id, 0) + amount <= MaxHolding
       /\ \E p \in {add_to_portfolio(portfolio, selected_coin_id, amount)} :
             IF amount > 0
             THEN PortfolioRerun("add", selected_coin_id, amount, add_message(amount),
                                 "", f.world.call.requests, p, f.world,
                                 RerunResponses(response))
             ELSE \E v \in {valued(p, now, response, f.world)} :
                     PortfolioRunEnds("add", selected_coin_id, amount,
                                      add_message(amount), "",
                                      f.world.call.requests, p, v)

\* a click on the Remove button of a row of the holdings table (lines
\* 771-794), which ends in st.rerun()
RemoveHolding(row, response) ==
    \E f \in {top_coins(250, now, response, ScriptStart(World))} :
       /\ Truthy(f.ret)
       /\ \E shown \in {valued(portfolio, now, response, f.world)} :
             /\ row \in 1..Len(shown.pv.result.holdings)
             /\ \E coin_id \in {portfolio_remove_target(shown.pv.result.holdings, row)} :
                   PortfolioRerun("remove", coin_id, 0, "none",
                                  shown.pv.result.holdings[row].id,
                                  f.world.call.requests,
                                  remove_from_portfolio(portfolio, coin_id),
                                  shown.world, RerunResponses(response))

\* a click on "Clear Portfolio" (lines 799-802), shown when the portfolio is
\* not empty
ClearPortfolio(response) ==
    \E f \in {top_coins(250, now, response, ScriptStart(World))} :
       /\ Truthy(f.ret)
       /\ Truthy(portfolio)
       /\ \E shown \in {valued(portfolio, now, response, f.world)} :
             PortfolioRerun("clear", "", 0, "none", "", f.world.call.requests,
                            DictV(<<>>), shown.world, RerunResponses(response))

\* number_input(min_value=0.0): the amounts that can be entered
MaxAmountInput == 2
AmountInputs == 0..MaxAmountInput

\* The session of the portfolio page within one cache period: the clock is
\* not advanced, and every run fetches the coins anew.
NextPortfolio ==
    \/ \E response \in PageResponses : PortfolioPageFails(response)
    \/ \E response \in PageResponses : PortfolioView(response)
    \/ \E response \in PageResponses, id \in CoinIdSet, amount \in AmountInputs :
          AddToPortfolio(id, amount, response)
    \/ \E response \in PageResponses, row \in 1..Len(CoinIds) :
          RemoveHolding(row, response)
    \/ \E response \in PageResponses : ClearPortfolio(response)

SpecPortfolio == Init /\ [][NextPortfolio]_vars

-----------------------------------------------------------------------------
(* get_coin_history *)

\* int(days) for the day counts the views pass; int('max') raises ValueError
IsInt(days) == days \in {"1", "7", "30", "90", "365"}
int(days) ==
    CASE days = "1" -> 1 [] days = "7" -> 7 [] days = "30" -> 30
      [] days = "90" -> 90 [] days = "365" -> 365

interval_DailyFromSeven(days) == IF int(days) >= 7 THEN "daily" ELSE "hourly"

\* line 143
interval(days) == IF int(days) > 7 THEN "daily" ELSE "hourly"

history_url(coin_id) == BASE_URL \o "/coins/" \o coin_id \o "/market_chart"
history_params(days) == [type |-> "history", days |-> days, interval |-> interval(days)]

DataFrame(rows) == [type |-> "DataFrame", rows |-> rows]

\* line 154: pd.DataFrame(prices, columns=['timestamp', 'price']) raises
\* ValueError for rows that do not have two columns
DataFrameRaises(rows) == \E i \in 1..Len(rows) : Len(rows[i]) # 2

\* lines 148-159: the series of the fetched data; an exception of the
\* processing is caught and gives None
price_series(data) ==
    IF ~Truthy(data) THEN NoneV
    ELSE IF data.type # "dict" THEN NoneV
    ELSE IF DataFrameRaises(Get(data, "prices", <<>>)) THEN NoneV
    ELSE DataFrame(Get(data, "prices", <<>>))

\* get_coin_history(coin_id, days): what it returns, whether it raised, and
\* the world after it.  int(days) at line 143 is outside the try block.
get_coin_history(coin_id, days, current_time, response, W) ==
    IF ~IsInt(days)
    THEN [ret |-> NoneV, raised |-> TRUE, world |-> W]
    ELSE LET r == get_with_cache(history_url(coin_id), history_params(days),
                                 CACHE_DURATION, current_time, response,
                                 W.CACHE, W.CACHE_EXPIRY)
         IN [ret |-> price_series(r.ret),
             raised |-> FALSE,
             world |-> WorldAfter(history_url(coin_id), history_params(days),
                                  CACHE_DURATION, current_time, response, W, r)]

\* the bodies of /coins/{id}/market_chart: a series, and an empty object
HistoryBodies == {DictV(<<<<"prices", <<<<0, 1>>, <<1, 2>>>>>>>>), DictV(<<>>)}

-----------------------------------------------------------------------------
(* get_coin_history called by the views, with any timeframe they offer and
   any answer of the network *)

\* selected_timeframe.replace('d', '') of the options of the dashboard
\* (line 594) and of the watchlist (line 843)
dashboard_days == {"1", "7", "30", "90", "365", "max"}
watchlist_days == {"1", "7", "30", "90"}

\* a series, an empty object, an object without prices, rows that are not
\* pairs, and a body that is not an object
HistoryCallBodies ==
    HistoryBodies \cup {DictV(<<<<"market_caps", <<>>>>>>),
                        DictV(<<<<"prices", <<<<0>>>>>>>>),
                        ListV(<<0>>)}

HistoryCallResponses(days) ==
    IF IsInt(days) THEN Responses(HistoryCallBodies) ELSE {Failed("ConnectionError")}

\* a run of a view up to its call of get_coin_history (line 605, line 854):
\* the run starts with the caches of lines 27-28
GetCoinHistory(view, coin_id, days, response) ==
    \E h \in {get_coin_history(coin_id, days, now, response, ScriptStart(World))} :
       /\ CACHE' = h.world.CACHE
       /\ CACHE_EXPIRY' = h.world.CACHE_EXPIRY
       /\ call' = h.world.call
       /\ lastStore' = h.world.lastStore
       /\ history' = [view |-> view, coin_id |-> coin_id, days |-> days,
                      raised |-> h.raised, ret |-> h.ret,
                      requested |-> IF h.raised THEN "" ELSE h.world.call.key,
                      response |-> IF h.raised THEN "not asked"
                                   ELSE h.world.call.response]
       /\ UNCHANGED <<now, portfolio, watchlist, added, ui, pv, market_data, chart,
                      dashboard_coins, top_movers, pv_earlier, call_earlier>>

\* the views fetch the history of one coin, with every timeframe they offer
NextHistory ==
    \/ \E d \in TickSteps : Tick(d)
    \/ \E days \in dashboard_days, coin_id \in {"bitcoin"} :
          \E response \in HistoryCallResponses(days) :
             GetCoinHistory("dashboard", coin_id, days, response)
    \/ \E days \in watchlist_days, coin_id \in {"bitcoin"} :
          \E response \in HistoryCallResponses(days) :
             GetCoinHistory("watchlist", coin_id, days, response)

SpecHistory == Init /\ [][NextHistory]_vars

-----------------------------------------------------------------------------
(* watchlist_page *)

InList(x, list) == \E i \in 1..Len(list) : list[i] = x

\* list.remove(x): without the first occurrence of x
ListRemove(list, x) ==
    LET i == CHOOSE k \in 1..Len(list) : list[k] = x /\ \A m \in 1..(k - 1) : list[m] # x
    IN SubSeq(list, 1, i - 1) \o SubSeq(list, i + 1, Len(list))

add_to_watchlist_Appends(wl, selected_coin_id) == Append(wl, selected_coin_id)

\* lines 834-840: the watchlist after a click on "Add"
add_to_watchlist(wl, selected_coin_id) ==
    IF ~InList(selected_coin_id, wl) THEN Append(wl, selected_coin_id) ELSE wl

\* lines 868-878: the rows of the table: the fetched coins that are in the
\* watchlist, in the order of the coins
RECURSIVE watchlist_rows(_, _)
watchlist_rows(coins, wl) ==
    IF coins = <<>> THEN <<>>
    ELSE (IF InList(coins[1].id, wl) THEN <<coins[1]>> ELSE <<>>)
         \o watchlist_rows(Tail(coins), wl)

\* line 887: the coin a row's Remove button acts on: the first fetched coin
\* with the name the row shows
watchlist_remove_target(coins, name) ==
    coins[CHOOSE k \in 1..Len(coins) :
             /\ coins[k].name = name
             /\ \A m \in 1..(k - 1) : coins[m].name # name].id

\* lines 907-909
remove_from_watchlist(wl, coin_id) ==
    IF InList(coin_id, wl) THEN ListRemove(wl, coin_id) ELSE wl

\* the timeframe selectbox is left at its default, '7d' (index=1)
watch_days == "7"

\* lines 852-854: the history of every coin of the watchlist is fetched;
\* responses gives the answer of the network for each coin
RECURSIVE history_loop(_, _, _, _)
history_loop(wl, current_time, responses, W) ==
    IF wl = <<>> THEN W
    ELSE history_loop(Tail(wl), current_time, responses,
                      get_coin_history(wl[1], watch_days, current_time,
                                       responses[wl[1]], W).world)

\* the answers of the network for the coins whose history a run fetches;
\* the other coins are not asked about
WatchHistory == Ok(DictV(<<<<"prices", <<<<0, 1>>, <<1, 2>>>>>>>>))

\* each fetched history arrives or fails
WatchResponses(ids) ==
    {[c \in CoinIdSet |-> IF c \in arrive THEN WatchHistory ELSE Failed("ConnectionError")] :
        arrive \in SUBSET ids}

\* the end of a run of the page
WatchlistRunEnds(kind, selected, message, wl, W) ==
    /\ watchlist' = wl
    /\ ui' = [page |-> "watchlist", click |-> kind, selected |-> selected,
              amount |-> 0, message |-> message]
    /\ CACHE' = W.CACHE
    /\ CACHE_EXPIRY' = W.CACHE_EXPIRY
    /\ call' = W.call
    /\ lastStore' = W.lastStore
    /\ UNCHANGED <<now, portfolio, added, pv, views>>

\* lines 812-816: the coins could not be fetched
WatchlistPageFails(response) ==
    \E f \in {top_coins(250, now, response, ScriptStart(World))} :
       /\ ~Truthy(f.ret)
       /\ WatchlistRunEnds("none", "", "error", watchlist, f.world)

\* a run without a click
WatchlistView(response, responses) ==
    \E f \in {top_coins(250, now, response, ScriptStart(World))} :
       /\ Truthy(f.ret)
       /\ WatchlistRunEnds("none", "", IF watchlist = <<>> THEN "info" ELSE "none",
                           watchlist, history_loop(watchlist, now, responses, f.world))

\* the run started by st.rerun() after a click changed the watchlist to wl:
\* lines 812-816, and the histories of wl when the coins were fetched
WatchlistRerun(kind, selected, message, wl, W, answers, responses) ==
    \E response \in answers :
       \E f \in {top_coins(250, now, response, ScriptStart(W))} :
          IF Truthy(f.ret)
          THEN WatchlistRunEnds(kind, selected, message, wl,
                                history_loop(wl, now, responses, f.world))
          ELSE WatchlistRunEnds(kind, selected, "error", wl, f.world)

\* a click on "Add" (lines 825-840); a new coin ends in st.rerun()
AddToWatchlist(selected_coin_id, response, responses) ==
    \E f \in {top_coins(250, now, response, ScriptStart(World))} :
       /\ Truthy(f.ret)
       /\ selected_coin_id \in coin_options(f.ret.items)
       /\ \E wl \in {add_to_watchlist(watchlist, selected_coin_id)} :
             IF ~InList(selected_coin_id, watchlist)
             THEN WatchlistRerun("add", selected_coin_id, "success", wl, f.world,
                                 RerunResponses(response), responses)
             ELSE WatchlistRunEnds("add", selected_coin_id, "info", wl,
                                   history_loop(wl, now, responses, f.world))

\* a click on the Remove button of a row (lines 884-909); the removal ends
\* in st.rerun()
RemoveFromWatchlist(row, response, responses) ==
    \E f \in {top_coins(250, now, response, ScriptStart(World))} :
       /\ Truthy(f.ret)
       /\ \E rows \in {watchlist_rows(f.ret.items, watchlist)} :
             /\ row \in 1..Len(rows)
             /\ \E coin_id \in {watchlist_remove_target(f.ret.items, rows[row].name)} :
                \E W \in {history_loop(watchlist, now, responses, f.world)} :
                   IF InList(coin_id, watchlist)
                   THEN WatchlistRerun("remove", "", "none",
                                       remove_from_watchlist(watchlist, coin_id), W,
                                       RerunResponses(response), responses)
                   ELSE WatchlistRunEnds("remove", "", "none", watchlist, W)

\* a click on "Clear Watchlist" (lines 914-917), shown when the watchlist is
\* not empty
ClearWatchlist(response, responses) ==
    \E f \in {top_coins(250, now, response, ScriptStart(World))} :
       /\ Truthy(f.ret)
       /\ watchlist # <<>>
       /\ \E W \in {history_loop(watchlist, now, responses, f.world)} :
             WatchlistRerun("clear", "", "none", <<>>, W,
                            RerunResponses(response), responses)

\* The session of the watchlist page within one cache period: the clock is
\* not advanced, and every run fetches the coins and the histories anew.
NextWatchlist ==
    \/ \E response \in PageResponses : WatchlistPageFails(response)
    \/ \E response \in PageResponses, responses \in WatchResponses(Range(watchlist)) :
          WatchlistView(response, responses)
    \/ \E response \in PageResponses, id \in CoinIdSet :
          \E responses \in WatchResponses(Range(watchlist) \cup {id}) :
             AddToWatchlist(id, response, responses)
    \/ \E response \in PageResponses, responses \in WatchResponses(Range(watchlist)),
          row \in 1..Len(CoinIds) :
          RemoveFromWatchlist(row, response, responses)
    \/ \E response \in PageResponses, responses \in WatchResponses(Range(watchlist)) :
          ClearWatchlist(response, responses)

SpecWatchlist == Init /\ [][NextWatchlist]_vars

-----------------------------------------------------------------------------
(* create_market_dominance_chart *)

top_n == 8

Figure(text) == [type |-> "figure", annotation |-> text]
Pie(chart_data) ==
    [type |-> "figure",
     labels |-> [i \in 1..Len(chart_data) |-> chart_data[i][1]],
     values |-> [i \in 1..Len(chart_data) |-> chart_data[i][2]]]

\* lines 369-373: (k.upper(), v) of every entry, largest v first
sorted_data(market_cap_percentage) ==
    Items(sorted([i \in 1..Len(market_cap_percentage.entries) |->
                    <<market_cap_percentage.entries[i][2],
                      <<upper(market_cap_percentage.entries[i][1]),
                        market_cap_percentage.entries[i][2]>>>>], TRUE))

dominance_chart_data_OthersSkipsOne(data) ==
    IF Len(data) > top_n
    THEN SubSeq(data, 1, top_n)
         \o <<<<"Others", SumOf([i \in 1..(Len(data) - top_n - 1) |->
                                    data[top_n + 1 + i][2]])>>>>
    ELSE data

\* lines 375-382: the top 8, and the rest as "Others"
dominance_chart_data(data) ==
    IF Len(data) > top_n
    THEN SubSeq(data, 1, top_n)
         \o <<<<"Others", SumOf([i \in 1..(Len(data) - top_n) |-> data[top_n + i][2]])>>>>
    ELSE data

\* create_market_dominance_chart(market_data)
create_market_dominance_chart(data) ==
    IF ~Truthy(data) \/ "data" \notin Keys(data)
    THEN Figure("No market data available")
    ELSE LET market_cap_percentage == Get(Get(data, "data", NoneV),
                                          "market_cap_percentage", DictV(<<>>))
         IN IF ~Truthy(market_cap_percentage)
            THEN Figure("No market dominance data available")
            ELSE Pie(dominance_chart_data(sorted_data(market_cap_percentage)))

\* The chart of any mapping of symbols to percentages.
MaxSymbols == 10
\* two percentages are enough for every order and every tie
Percentages == {1, 2}

Symbols == <<"btc", "eth", "usdt", "bnb", "sol", "xrp", "usdc", "ada", "doge", "trx",
             "ton", "dot">>

\* /global: {"data": {"market_cap_percentage": {symbol: percentage, ...}}}
GlobalBody(percentages) ==
    DictV(<<<<"data",
              DictV(<<<<"market_cap_percentage",
                        DictV([i \in 1..Len(percentages) |->
                                 <<Symbols[i], percentages[i]>>])>>>>)>>>>)

RECURSIVE PercentageLists(_)
PercentageLists(n) ==
    IF n = 0 THEN {<<>>}
    ELSE LET shorter == PercentageLists(n - 1)
         IN shorter \cup {Append(s, x) : s \in {t \in shorter : Len(t) = n - 1},
                                        x \in Percentages}

InitDominance ==
    /\ now = 0
    /\ CACHE = EmptyDict
    /\ CACHE_EXPIRY = EmptyDict
    /\ call = NoCall
    /\ lastStore = EmptyDict
    /\ portfolio = DictV(<<>>)
    /\ watchlist = <<>>
    /\ added = [c \in CoinIdSet |-> 0]
    /\ ui = NoCall
    /\ pv = NoCall
    /\ market_data \in {NoneV} \cup {GlobalBody(p) : p \in PercentageLists(MaxSymbols)}
    /\ chart = NoCall
    /\ dashboard_coins = ListV(<<>>)
    /\ top_movers = NoCall
    /\ pv_earlier = NoCall
    /\ history = NoCall
    /\ call_earlier = NoCall

DrawDominanceChart ==
    /\ chart = NoCall
    /\ chart' = create_market_dominance_chart(market_data)
    /\ UNCHANGED <<now, CACHE, CACHE_EXPIRY, call, lastStore, portfolio, watchlist,
                   added, ui, pv, market_data, dashboard_coins, top_movers,
                   pv_earlier, history, call_earlier>>

NextDominance == DrawDominanceChart

SpecDominance == InitDominance /\ [][NextDominance]_vars

-----------------------------------------------------------------------------
(* home_dashboard: today's top movers *)

IntV(n) == [type |-> "int", v |-> n]

\* coin.get('price_change_percentage_24h', 0): the value of the key, which
\* is None for a JSON null, and 0 only when the key is absent
price_change_percentage_24h(coin) ==
    IF "price_change_percentage_24h" \in DOMAIN coin
    THEN coin.price_change_percentage_24h
    ELSE IntV(0)

\* x > 0 and x < 0 raise TypeError when x is None
ComparisonRaises(x) == x.type = "NoneType"

\* line 664: [coin for coin in coins if coin.get(...) > 0]
RECURSIVE gainers(_)
gainers(cs) ==
    IF cs = <<>> THEN <<>>
    ELSE (IF price_change_percentage_24h(Head(cs)).v > 0 THEN <<Head(cs)>> ELSE <<>>)
         \o gainers(Tail(cs))

\* line 670: [coin for coin in coins if coin.get(...) < 0]
RECURSIVE losers(_)
losers(cs) ==
    IF cs = <<>> THEN <<>>
    ELSE (IF price_change_percentage_24h(Head(cs)).v < 0 THEN <<Head(cs)>> ELSE <<>>)
         \o losers(Tail(cs))

\* the pairs (key, coin) that sorted() orders
ByChange(cs) == [i \in 1..Len(cs) |-> <<price_change_percentage_24h(cs[i]).v, cs[i]>>]

top_movers_shown == 5

FirstOf(s, k) == SubSeq(s, 1, IF Len(s) < k THEN Len(s) ELSE k)

\* lines 663-667
top_gainers(cs) == FirstOf(Items(sorted(ByChange(gainers(cs)), TRUE)), top_movers_shown)

\* lines 669-672
top_losers(cs) == FirstOf(Items(sorted(ByChange(losers(cs)), FALSE)), top_movers_shown)

\* home_dashboard from the fetched coins to the movers: the page ends at
\* line 495 without coins, and the first comparison of a None change with 0
\* (line 664, or line 508, 521, 534 or 572 before it) ends it with a
\* TypeError
movers(coins) ==
    IF ~Truthy(coins) THEN [reached |-> FALSE]
    ELSE IF \E i \in 1..Len(coins.items) :
               ComparisonRaises(price_change_percentage_24h(coins.items[i]))
    THEN [reached |-> TRUE, raised |-> TRUE]
    ELSE [reached |-> TRUE, raised |-> FALSE,
          top_gainers |-> top_gainers(coins.items),
          top_losers |-> top_losers(coins.items)]

\* The movers of any snapshot.
MaxCoins == 6
MaxPartial == 2

RankedIds == <<"bitcoin", "ethereum", "tether", "binancecoin", "solana", "ripple",
               "usd-coin", "cardano">>

\* what /coins/markets says about the 24h change of a coin: a number,
\* null, or nothing
Changes == {IntV(c) : c \in {-2, -1, 0, 1, 2}}
NoChange == {NoneV, [type |-> "absent"]}

MoverCoin(id, change) ==
    IF change.type = "absent" THEN [id |-> id]
    ELSE [id |-> id, price_change_percentage_24h |-> change]

RECURSIVE ChangeLists(_, _)
ChangeLists(n, S) ==
    IF n = 0 THEN {<<>>}
    ELSE LET shorter == ChangeLists(n - 1, S)
         IN shorter \cup {Append(s, x) : s \in {t \in shorter : Len(t) = n - 1}, x \in S}

MoverSnapshot(changes) ==
    ListV([i \in 1..Len(changes) |-> MoverCoin(RankedIds[i], changes[i])])

\* every snapshot of up to MaxCoins coins with a number each, and every
\* snapshot of up to MaxPartial coins some of which have none
MoverSnapshots ==
    {MoverSnapshot(l) : l \in ChangeLists(MaxCoins, Changes)
                            \cup ChangeLists(MaxPartial, Changes \cup NoChange)}

InitMovers ==
    /\ now = 0
    /\ CACHE = EmptyDict
    /\ CACHE_EXPIRY = EmptyDict
    /\ call = NoCall
    /\ lastStore = EmptyDict
    /\ portfolio = DictV(<<>>)
    /\ watchlist = <<>>
    /\ added = [c \in CoinIdSet |-> 0]
    /\ ui = NoCall
    /\ pv = NoCall
    /\ market_data = NoneV
    /\ chart = NoCall
    /\ dashboard_coins \in MoverSnapshots
    /\ top_movers = NoCall
    /\ pv_earlier = NoCall
    /\ history = NoCall
    /\ call_earlier = NoCall

ShowTopMovers ==
    /\ top_movers = NoCall
    /\ top_movers' = movers(dashboard_coins)
    /\ UNCHANGED <<now, CACHE, CACHE_EXPIRY, call, lastStore, portfolio, watchlist,
                   added, ui, pv, market_data, chart, dashboard_coins,
                   pv_earlier, history, call_earlier>>

NextMovers == ShowTopMovers

SpecMovers == InitMovers /\ [][NextMovers]_vars

-----------------------------------------------------------------------------
(* Claims about get_with_cache, under SpecCache *)

\* a step in which get_with_cache was called
Called == call' # call

\* the last successful network fetch of the called key before the call
PriorStore == DictGet(lastStore, call'.key, NoneV)

\* C1: after a successful fetch of a key at time t with duration d (the
\* most recent one), a later call with the same key at a time before t + d
\* returns the payload of that fetch with no network request, and a call at
\* or after t + d makes a network request.
C1_HitWithinTtlMissAfter ==
    [][(Called /\ PriorStore # NoneV) =>
          /\ call'.time < PriorStore.time + PriorStore.duration
                => call'.requests = 0 /\ call'.ret = PriorStore.payload
          /\ call'.time >= PriorStore.time + PriorStore.duration
                => call'.requests = 1]_vars

\* a hit one second before the expiry, of a key that was fetched twice
C1_Witness ==
    /\ call # NoCall
    /\ call.requests = 0
    /\ call.key \in DOMAIN lastStore
    /\ lastStore[call.key].time > 0
    /\ call.time = lastStore[call.key].time + CACHE_DURATION - 1
    /\ call.ret = lastStore[call.key].payload

\* C2: a network request that fails (network error, HTTP status, malformed
\* body) makes the call return None without raising, and leaves CACHE and
\* CACHE_EXPIRY as they were.
C2_FailureReturnsNoneAndKeepsCache ==
    [][(Called /\ call'.requests = 1 /\ call'.response \in FailureKinds) =>
          /\ call'.ret = NoneV
          /\ ~call'.raised
          /\ CACHE' = CACHE
          /\ CACHE_EXPIRY' = CACHE_EXPIRY]_vars

\* a malformed body received for a key whose older entry has expired
C2_Witness ==
    /\ call # NoCall
    /\ call.response = "JSONDecodeError"
    /\ call.ret = NoneV
    /\ call.key \in DOMAIN CACHE
    /\ CACHE[call.key] # NoneV
    /\ CACHE_EXPIRY[call.key] <= call.time

\* C16: a cache hit leaves CACHE and CACHE_EXPIRY as they were for every
\* key, and the expiry of the hit entry stays the time of its store plus
\* its duration.
C16_HitHasNoSideEffects ==
    [][(Called /\ call'.requests = 0) =>
          /\ CACHE' = CACHE
          /\ CACHE_EXPIRY' = CACHE_EXPIRY
          /\ PriorStore # NoneV
          /\ CACHE_EXPIRY'[call'.key] = PriorStore.time + PriorStore.duration]_vars

\* a hit some time after the store, while another key is cached as well
C16_Witness ==
    /\ call # NoCall
    /\ call.requests = 0
    /\ Cardinality(DOMAIN CACHE) >= 2
    /\ call.key \in DOMAIN lastStore
    /\ call.time > lastStore[call.key].time
    /\ CACHE_EXPIRY[call.key] = lastStore[call.key].time + CACHE_DURATION

-----------------------------------------------------------------------------
(* Claims about calls one after the other, under SpecRetry *)

\* the call before the last one asked the network and failed
EarlierFailed ==
    /\ call_earlier # NoCall
    /\ call_earlier.requests = 1
    /\ call_earlier.response \in FailureKinds

\* C17: a call makes at most one network request, and the call that follows
\* a failed call of the same key asks the network again instead of
\* returning the earlier failure.
C17_FailureNotRetriedNotRemembered ==
    call # NoCall =>
        /\ call.requests <= 1
        /\ (EarlierFailed /\ call.key = call_earlier.key) => call.requests = 1

\* a failed call followed at once by a call of the same key that succeeds
C17_Witness ==
    /\ EarlierFailed
    /\ call.key = call_earlier.key
    /\ call.time = call_earlier.time
    /\ call.requests = 1
    /\ call.response = "ok"
    /\ call.ret # NoneV

-----------------------------------------------------------------------------
(* Claims about calculate_portfolio_value, under SpecValuation *)

Valued == pv # NoCall
\* the snapshot fetch happened and succeeded: by a request, or by a cache hit
FetchSucceeded ==
    /\ pv.fetch # NoneV
    /\ pv.fetch.requests = 0 \/ pv.fetch.response = "ok"
FetchFailed ==
    /\ pv.fetch # NoneV
    /\ pv.fetch.requests = 1
    /\ pv.fetch.response \in FailureKinds

InSnapshot(coin_id, items) == \E j \in 1..Len(items) : items[j].id = coin_id
PriceIn(coin_id, items) ==
    items[CHOOSE j \in 1..Len(items) : items[j].id = coin_id].current_price

RECURSIVE ExpectedTotal(_, _)
ExpectedTotal(entries, items) ==
    IF entries = <<>> THEN 0
    ELSE (IF InSnapshot(entries[1][1], items)
          THEN entries[1][2] * PriceIn(entries[1][1], items) ELSE 0)
         + ExpectedTotal(Tail(entries), items)

\* C3: with holdings and a successfully fetched snapshot, the total is the
\* sum of amount * current_price over the holdings in the snapshot, the list
\* has one item per such holding and none for the others, and no error is
\* reported.
C3_TotalIsSumOverPricedHoldings ==
    (Valued /\ Truthy(pv.holdings) /\ FetchSucceeded) =>
        LET entries == pv.holdings.entries
            items == pv.fetch.ret.items
            listed == pv.result.holdings
        IN /\ pv.result.total_value = ExpectedTotal(entries, items)
           /\ \A i \in 1..Len(entries) :
                 Cardinality({k \in 1..Len(listed) : listed[k].id = entries[i][1]})
                    = IF InSnapshot(entries[i][1], items) THEN 1 ELSE 0
           /\ \A k \in 1..Len(listed) : listed[k].id \in Keys(pv.holdings)
           /\ "error" \notin DOMAIN pv.result

\* C4: the list is ordered by value, largest first, and items of equal
\* value are in the order of their coins in the holdings.
C4_SortedByValueStable ==
    Valued =>
        LET listed == pv.result.holdings
        IN \A i, j \in 1..Len(listed) :
              i < j =>
                 /\ listed[i].value >= listed[j].value
                 /\ listed[i].value = listed[j].value
                       => IndexOf(pv.holdings, listed[i].id)
                             < IndexOf(pv.holdings, listed[j].id)

\* three items: the most valuable one was the last of the holdings, the
\* other two have the same value
C4_Witness ==
    /\ Valued
    /\ Len(pv.result.holdings) = 3
    /\ pv.result.holdings[1].value > pv.result.holdings[2].value
    /\ pv.result.holdings[2].value = pv.result.holdings[3].value
    /\ IndexOf(pv.holdings, pv.result.holdings[1].id) = 3

\* C5: an empty portfolio and a failed fetch both give total 0 and an empty
\* list; the result has the error marker exactly when the fetch failed; an
\* empty portfolio makes no fetch.
C5_ErrorMarkerIffFetchFailed ==
    Valued =>
        /\ (~Truthy(pv.holdings) \/ FetchFailed)
              => pv.result.total_value = 0 /\ pv.result.holdings = <<>>
        /\ "error" \in DOMAIN pv.result <=> FetchFailed
        /\ ~Truthy(pv.holdings) => pv.fetch = NoneV

-----------------------------------------------------------------------------
(* Claims about the session state of the portfolio page, under SpecPortfolio *)

\* C6: the portfolio has at most one entry per coin, and the amount of a
\* coin is the sum of the amounts added to it since it was last removed or
\* the portfolio was last cleared.
C6_AmountIsSumOfAdditions ==
    /\ \A i, j \in 1..Len(portfolio.entries) :
          portfolio.entries[i][1] = portfolio.entries[j][1] => i = j
    /\ \A c \in CoinIdSet : Get(portfolio, c, 0) = added[c]

\* a second addition to a coin, with another coin in the portfolio
C6_Witness ==
    /\ ui # NoCall
    /\ ui.click = "add"
    /\ ui.amount > 0
    /\ Len(portfolio.entries) >= 2
    /\ \E c \in CoinIdSet : Get(portfolio, c, 0) > ui.amount /\ added[c] > ui.amount

\* C7: every amount in the portfolio is greater than 0, and a click on
\* "Add to Portfolio" with an amount that is not greater than 0 leaves the
\* portfolio as it was and shows the warning.
C7_AmountsPositive ==
    [][/\ \A i \in 1..Len(portfolio'.entries) : portfolio'.entries[i][2] > 0
       /\ (ui'.page = "portfolio" /\ ui'.click = "add" /\ ui'.amount <= 0)
             => portfolio' = portfolio /\ ui'.message = "warning"]_vars

\* the warning after an addition of 0 to a portfolio that holds the coin
C7_Witness ==
    /\ ui # NoCall
    /\ ui.click = "add"
    /\ ui.amount = 0
    /\ ui.message = "warning"
    /\ Truthy(portfolio)

-----------------------------------------------------------------------------
(* Claims about the session state of the watchlist page, under SpecWatchlist *)

\* C8: no coin is in the watchlist more than once, and a click on "Add" for
\* a coin that is in the watchlist leaves the watchlist as it was.
C8_WatchlistIsASet ==
    [][/\ \A i, j \in 1..Len(watchlist') : watchlist'[i] = watchlist'[j] => i = j
       /\ (ui'.page = "watchlist" /\ ui'.click = "add"
              /\ InList(ui'.selected, watchlist))
             => watchlist' = watchlist]_vars

\* "already in your watchlist", with two coins in the watchlist
C8_Witness ==
    /\ ui # NoCall
    /\ ui.page = "watchlist"
    /\ ui.click = "add"
    /\ ui.message = "info"
    /\ Len(watchlist) >= 2

-----------------------------------------------------------------------------
(* Claims about create_market_dominance_chart, under SpecDominance *)

DominanceInput ==
    Get(Get(market_data, "data", NoneV), "market_cap_percentage", DictV(<<>>)).entries
InputPosition(label) ==
    CHOOSE i \in 1..Len(DominanceInput) : upper(DominanceInput[i][1]) = label
InputTotal == SumOf([i \in 1..Len(DominanceInput) |-> DominanceInput[i][2]])

\* C9: with more than 8 symbols the chart data is the 8 entries with the
\* largest percentages, largest first and unchanged, entries of equal
\* percentage in the order of the input, followed by one "Others" entry
\* with the sum of the remaining percentages, so that the values sum to the
\* sum of the input; with 8 symbols or fewer it is the sorted input, without
\* "Others".
C9_TopEightAndOthers ==
    (chart # NoCall /\ market_data # NoneV /\ DominanceInput # <<>>) =>
        LET n == Len(DominanceInput)
            m == IF n > 8 THEN 8 ELSE n
        IN /\ "labels" \in DOMAIN chart
           /\ Len(chart.labels) = (IF n > 8 THEN 9 ELSE n)
           /\ Len(chart.values) = Len(chart.labels)
           /\ \A k \in 1..m :
                 \E i \in 1..n : /\ upper(DominanceInput[i][1]) = chart.labels[k]
                                 /\ DominanceInput[i][2] = chart.values[k]
           /\ \A pos \in {[k \in 1..m |-> InputPosition(chart.labels[k])]} :
                 /\ \A k \in 1..(m - 1) :
                       \/ chart.values[k] > chart.values[k + 1]
                       \/ /\ chart.values[k] = chart.values[k + 1]
                          /\ pos[k] < pos[k + 1]
                 /\ \A i \in (1..n) \ {pos[k] : k \in 1..m} :
                       \/ DominanceInput[i][2] < chart.values[m]
                       \/ /\ DominanceInput[i][2] = chart.values[m]
                          /\ pos[m] < i
           /\ n > 8 =>
                 /\ chart.labels[9] = "Others"
                 /\ chart.values[9]
                       = InputTotal - SumOf([k \in 1..8 |-> chart.values[k]])
           /\ n <= 8 => \A k \in 1..n : chart.labels[k] # "Others"
           /\ SumOf(chart.values) = InputTotal

\* ten symbols of which the first has a small percentage: the chart begins
\* with a larger one and "Others" is the sum of two entries
C9_Witness ==
    /\ chart # NoCall
    /\ market_data # NoneV
    /\ Len(DominanceInput) = 10
    /\ DominanceInput[1][2] = 1
    /\ chart.values[1] = 2
    /\ chart.values[8] = 1
    /\ chart.labels[9] = "Others"
    /\ chart.values[9] = 2

-----------------------------------------------------------------------------
(* Claims about the top movers, under SpecMovers *)

\* the page got as far as the movers
MoversReached == top_movers # NoCall /\ top_movers.reached

MoverInput == dashboard_coins.items
\* the 24h change of a coin of the snapshot: its number, 0 without one
ChangeOf(coin) ==
    LET x == price_change_percentage_24h(coin)
    IN IF x.type = "int" THEN x.v ELSE 0
GainerPositions == {i \in 1..Len(MoverInput) : ChangeOf(MoverInput[i]) > 0}
LoserPositions == {i \in 1..Len(MoverInput) : ChangeOf(MoverInput[i]) < 0}
IdsOf(list) == {list[k].id : k \in 1..Len(list)}
Smaller(a, b) == IF a < b THEN a ELSE b

\* list is the at most 5 coins of the snapshot positions in among, in the
\* order of sign * change, largest first, and no coin left out has more
RankedFrom(list, among, sign) ==
    /\ Len(list) = Smaller(top_movers_shown, Cardinality(among))
    /\ Cardinality(IdsOf(list)) = Len(list)
    /\ \A k \in 1..Len(list) : \E i \in among : MoverInput[i] = list[k]
    /\ \A k \in 1..(Len(list) - 1) :
          sign * ChangeOf(list[k]) >= sign * ChangeOf(list[k + 1])
    /\ \A i \in among :
          MoverInput[i].id \notin IdsOf(list)
             => sign * ChangeOf(MoverInput[i]) <= sign * ChangeOf(list[Len(list)])

MoversRanked ==
    /\ RankedFrom(top_movers.top_gainers, GainerPositions, 1)
    /\ RankedFrom(top_movers.top_losers, LoserPositions, -1)
    /\ \A i \in 1..Len(MoverInput) :
          ChangeOf(MoverInput[i]) = 0
             => MoverInput[i].id \notin IdsOf(top_movers.top_gainers)
                                        \cup IdsOf(top_movers.top_losers)
    /\ IdsOf(top_movers.top_gainers) \cap IdsOf(top_movers.top_losers) = {}

\* C10: for every snapshot the page shows, top_gainers is the at most 5
\* coins with the largest 24h change among those with a change above 0,
\* largest first, top_losers is the at most 5 coins with the most negative
\* change among those with a change below 0, most negative first, a coin
\* with change 0 is in neither list, and no coin is in both.
C10_MoversRankedForEverySnapshot ==
    MoversReached => (~top_movers.raised /\ MoversRanked)

\* The ranking of the snapshots in which every change is a number or absent.
MoversRankedWhenComparable ==
    (MoversReached /\ ~top_movers.raised) => MoversRanked

\* six gainers of which the one with the smallest change is left out
MoversCutAtFive ==
    /\ MoversReached
    /\ ~top_movers.raised
    /\ Cardinality(GainerPositions) = 6
    /\ ChangeOf(top_movers.top_gainers[5]) = 2

-----------------------------------------------------------------------------
(* Claims about repeated valuations, under SpecRevaluation *)

\* pv_earlier and pv are two calls with the same holdings argument
TwoValuations ==
    pv # NoCall /\ pv_earlier # NoCall /\ pv.holdings = pv_earlier.holdings

\* what get_top_coins(250) returned to a call, None for a call without fetch
SnapshotOf(v) == IF v.fetch = NoneV THEN NoneV ELSE v.fetch.ret

-----------------------------------------------------------------------------
(* Claims about get_coin_history, under SpecHistory *)

HistoryCalled == history # NoCall

\* the request of a call for a number of days with an interval
RequestFor(coin_id, days, requested_interval) ==
    "https://api.coingecko.com/api/v3/coins/" \o coin_id \o "/market_chart_"
    \o "{'vs_currency': 'usd', 'days': '" \o days \o "', 'interval': '"
    \o requested_interval \o "'}"

\* C12: the request for a window of 1 or 7 days has the interval 'hourly'
\* and the request for a window of 30, 90 or 365 days has the interval
\* 'daily': daily exactly for the windows above 7 days.
C12_DailyAboveSevenDays ==
    (HistoryCalled /\ history.days # "max") =>
        /\ ~history.raised
        /\ history.days \in {"1", "7"}
              => history.requested = RequestFor(history.coin_id, history.days, "hourly")
        /\ history.days \in {"30", "90", "365"}
              => history.requested = RequestFor(history.coin_id, history.days, "daily")

\* a network request for the window of exactly 7 days
C12_Witness ==
    /\ HistoryCalled
    /\ history.days = "7"
    /\ history.response = "ok"
    /\ history.requested = RequestFor("bitcoin", "7", "hourly")

\* C13: for every timeframe of the views and every answer of the network,
\* get_coin_history returns a series or None and raises nothing.
C13_HistoryNeverRaises ==
    HistoryCalled =>
        /\ ~history.raised
        /\ history.ret = NoneV \/ history.ret.type = "DataFrame"

-----------------------------------------------------------------------------
(* Claims about records with missing fields, under SpecPartial *)

\* the record of the fetched snapshot that the lookup keeps for coin_id
FetchedRecords(coin_id) ==
    {i \in 1..Len(pv.fetch.ret.items) :
        /\ "id" \in DOMAIN pv.fetch.ret.items[i]
        /\ pv.fetch.ret.items[i].id = coin_id}
FetchedRecord(coin_id) ==
    pv.fetch.ret.items[CHOOSE i \in FetchedRecords(coin_id) :
                           \A j \in FetchedRecords(coin_id) : j <= i]

\* the value an item has for a key when the record has no value for it
ItemHasDefault(item, coin) ==
    /\ item.nulls = {}
    /\ ~("symbol" \in DOMAIN coin) => item.symbol = ""
    /\ ~("name" \in DOMAIN coin) => item.name = ""
    /\ ~("current_price" \in DOMAIN coin) => item.price = 0 /\ item.value = 0
    /\ ~("price_change_percentage_24h" \in DOMAIN coin) => item.price_change_24h = 0
    /\ ~("image" \in DOMAIN coin) => item.image = ""

\* C14: when a record of the fetched snapshot lacks a field (id, symbol,
\* name, current_price, 24h price change, image), the valuation completes
\* without raising and takes zero or the empty string for the field, so a
\* held coin without current_price is valued at 0.
C14_MissingFieldsAreZeroOrEmpty ==
    (Valued /\ FetchSucceeded /\ Truthy(pv.fetch.ret)) =>
        /\ ~pv.raised
        /\ \A i \in 1..Len(pv.result.holdings) :
              ItemHasDefault(pv.result.holdings[i],
                             FetchedRecord(pv.result.holdings[i].id))

-----------------------------------------------------------------------------
(* Claims about the cache when requests take time, under SpecLatency *)

\* C15: a miss whose request succeeds stores the payload with an expiry of
\* the time of the store plus the duration, however long the request took.
C15_ExpiryCountsFromTheStore ==
    [][(Called /\ call'.requests = 1 /\ call'.response = "ok") =>
          CACHE_EXPIRY'[call'.key] = now' + CACHE_DURATION]_vars

-----------------------------------------------------------------------------
(* Claims about the runs of the portfolio page, under SpecPortfolio *)

\* C18: a click on Remove in a row of the holdings table removes the coin
\* that the row shows and leaves every other entry of the portfolio as it
\* was, also when two coins of the snapshot have the same name.
C18_RemoveActsOnTheRowShown ==
    [][(ui'.page = "portfolio" /\ ui'.click = "remove")
          => portfolio' = Del(portfolio, ui'.shown)]_vars

\* C19: the cache outlives a run of the script: a run that starts while an
\* entry of an earlier run for its request has not expired makes no network
\* request for it.
C19_CacheOutlivesTheRun ==
    (ui # NoCall /\ ui.page = "portfolio" /\ ui.entry) => ui.requests = 0

====
